---- MODULE Spec2Model ----
(***************************************************************************)
(* Lazy-route example application (crates/example/src/lib.rs).             *)
(*                                                                         *)
(* The application registers four route views under one <Routes>:          *)
(*   ""      -> ViewA                 (plain component, main bundle)       *)
(*   "" / b  -> ViewB > ViewBChild    (both Lazy, split modules)           *)
(*   c       -> ViewC                 (Lazy, its deserializer also split)  *)
(* The model follows one browser tab: the current URL, the active chain    *)
(* of matched routes, every route's data task and view future, the split   *)
(* modules, and the HTTP requests in flight.                               *)
(***************************************************************************)
EXTENDS Naturals, Sequences, FiniteSets

(* Number of navigations the user performs after the application mounts. *)
MaxNav == 2

(* The same, in the runs that check progress under fair scheduling. *)
LiveNav == 1

Routes == {"ViewA", "ViewB", "ViewBChild", "ViewC"}

Modules == {"view_b", "view_b_child", "view_c", "deserialize_comments"}

(* URL paths as sequences of segments: "/", "/b", "/c", "/x", "/b/x". *)
Paths == {<<>>, <<"b">>, <<"c">>, <<"x">>, <<"b", "x">>}

(* Response bodies an HTTP fetch can return: well-formed or malformed JSON. *)
Bodies == {"json", "garbage"}

(* The <Routes> children, in declaration order. *)
RouteTable ==
    << [seg |-> "", view |-> "ViewA", children |-> <<>>],
       [seg |-> "", view |-> "ViewB",
        children |-> << [seg |-> "b", view |-> "ViewBChild", children |-> <<>>] >>],
       [seg |-> "c", view |-> "ViewC", children |-> <<>>] >>

(* Routes whose view is wrapped in Lazy::<T>::new(). *)
LazyRoutes == {"ViewB", "ViewBChild", "ViewC"}

(* Routes whose data() creates an AsyncDerived that performs an HTTP fetch. *)
FetchRoutes == {"ViewBChild", "ViewC"}

(* Routes whose view contains a <Suspense> around their data. *)
HasSuspense == {"ViewBChild", "ViewC"}

(* The wasm_split identifier of a lazy route's inner view function. *)
ModuleOf(r) ==
    CASE r = "ViewB" -> "view_b"
      [] r = "ViewBChild" -> "view_b_child"
      [] r = "ViewC" -> "view_c"
      [] OTHER -> "none"

(***************************************************************************)
(* Route matching.  StaticSegment("") consumes nothing, StaticSegment(s)   *)
(* consumes one segment equal to s.  A leaf route matches only when the    *)
(* whole path is consumed; a parent route matches when one child matches   *)
(* the remainder.  The empty chain stands for "no route matched".          *)
(***************************************************************************)
RECURSIVE MatchNodes(_, _)
RECURSIVE MatchNode(_, _)

MatchNode(n, segs) ==
    LET consumed == IF n.seg = "" THEN TRUE
                    ELSE segs # <<>> /\ Head(segs) = n.seg
        rest == IF n.seg = "" THEN segs ELSE Tail(segs)
    IN  IF ~consumed THEN <<>>
        ELSE IF n.children = <<>>
             THEN (IF rest = <<>> THEN <<n.view>> ELSE <<>>)
             ELSE LET sub == MatchNodes(n.children, rest)
                  IN  IF sub = <<>> THEN <<>> ELSE <<n.view>> \o sub

MatchNodes(nodes, segs) ==
    IF nodes = <<>> THEN <<>>
    ELSE LET m == MatchNode(Head(nodes), segs)
         IN  IF m # <<>> THEN m ELSE MatchNodes(Tail(nodes), segs)

(* Variant: only the first segment of the path is matched. *)
ResolveFirstSegment(p) ==
    MatchNodes(RouteTable, IF p = <<>> THEN p ELSE <<Head(p)>>)

Resolve(p) == MatchNodes(RouteTable, p)

(* Variant: no node of the old chain is kept. *)
SharedPrefixNone(a, b) == 0

(* Length of the longest common prefix of two chains. *)
RECURSIVE SharedPrefix(_, _)
SharedPrefix(a, b) ==
    IF a = <<>> \/ b = <<>> \/ Head(a) # Head(b) THEN 0
    ELSE 1 + SharedPrefix(Tail(a), Tail(b))

InChain(c) == {c[i] : i \in 1..Len(c)}


VARIABLES
    url,        \* the current location's path
    chain,      \* active chain: matched route views, root to leaf
    inst,       \* per route: how many times data() has been called for it
    dataSt,     \* per route: state of the current RouteData's AsyncDerived
    viewSt,     \* per route: state of the current view() future
    susp,       \* per route: what its <Suspense> region displays
    text,       \* response body held by ViewC's data task across its await
    mod,        \* per split module: loader state
    loads,      \* per split module: underlying loads started
    requests,   \* per split module: load requests issued by callers
    observed,   \* per split module: outcomes its requesters have resumed with
    http,       \* HTTP requests in flight, tagged with the task that sent them
    fetched,    \* response texts delivered to ViewC's data task
    failures,   \* failures that have reached running code
    panicked,   \* an unwrap() has panicked (wasm32: panic = abort)
    navCount,   \* navigations performed after mount
    kept        \* chain nodes the last pass of the router left in place

vars == <<url, chain, inst, dataSt, viewSt, susp, text, mod, loads, requests,
          observed, http, fetched, failures, panicked, navCount, kept>>

State ==
    [url |-> url, chain |-> chain, inst |-> inst, dataSt |-> dataSt,
     viewSt |-> viewSt, susp |-> susp, text |-> text, mod |-> mod,
     loads |-> loads, requests |-> requests, observed |-> observed,
     http |-> http, fetched |-> fetched, failures |-> failures,
     panicked |-> panicked, navCount |-> navCount, kept |-> kept]

(* The program before the router has looked at the location. *)
Unmounted ==
    [url |-> <<>>, chain |-> <<>>,
     inst |-> [r \in Routes |-> 0],
     dataSt |-> [r \in Routes |-> "none"],
     viewSt |-> [r \in Routes |-> "none"],
     susp |-> [r \in Routes |-> "none"],
     text |-> "none",
     mod |-> [m \in Modules |-> "Unloaded"],
     loads |-> [m \in Modules |-> 0],
     requests |-> [m \in Modules |-> 0],
     observed |-> [m \in Modules |-> {}],
     http |-> {},
     fetched |-> 0,
     failures |-> {},
     panicked |-> FALSE,
     navCount |-> 0,
     kept |-> 0]

(***************************************************************************)
(* Split-module loader (wasm_split): a request starts the underlying load  *)
(* only for an Unloaded module, joins a load in flight, and returns at     *)
(* once for a module whose load has finished.                              *)
(***************************************************************************)
(* Variant: a request does not join a load in flight. *)
StartsLoadNoJoin(st) == st \in {"Unloaded", "Loading"}

StartsLoad(st) == st = "Unloaded"

Settled(st) == st \in {"Loaded", "Failed"}

(* The loader after the modules in ms have each been requested once. *)
Request(s, ms) ==
    [s EXCEPT
       !.requests = [m \in Modules |->
                        IF m \in ms THEN s.requests[m] + 1 ELSE s.requests[m]],
       !.loads = [m \in Modules |->
                     IF m \in ms /\ StartsLoad(s.mod[m])
                     THEN s.loads[m] + 1 ELSE s.loads[m]],
       !.mod = [m \in Modules |->
                   IF m \in ms /\ StartsLoad(s.mod[m])
                   THEN "Loading" ELSE s.mod[m]],
       !.observed = [m \in Modules |->
                        IF m \in ms /\ Settled(s.mod[m])
                        THEN s.observed[m] \cup {s.mod[m]}
                        ELSE s.observed[m]]]

(***************************************************************************)
(* What entering a route does.                                             *)
(***************************************************************************)

(* Variant: ViewBChild's AsyncDerived is not created when it is entered. *)
DataOnEnterLate(r) ==
    CASE r = "ViewC" -> "fetching"
      [] r = "ViewB" -> "ready"
      [] OTHER -> "none"

(* data(): ViewA is a plain component with no route data; ViewB::data()    *)
(* returns the unit struct; ViewBChild and ViewC create an AsyncDerived    *)
(* whose future starts with an HTTP GET.                                   *)
DataOnEnter(r) ==
    CASE r = "ViewA" -> "none"
      [] r = "ViewB" -> "ready"
      [] OTHER -> "fetching"

(* Variant: entering ViewC also requests the deserializer's module. *)
EnterModulesEager(r) ==
    IF r = "ViewC" THEN {"view_c", "deserialize_comments"}
    ELSE IF r \in LazyRoutes THEN {ModuleOf(r)} ELSE {}

(* The split modules whose load is requested by entering route r: the one  *)
(* holding its inner view function.                                        *)
EnterModules(r) == IF r \in LazyRoutes THEN {ModuleOf(r)} ELSE {}

(* Variant: only the outermost newly matched route's view is chosen. *)
ViewsChosenOutermost(entered) ==
    IF entered = <<>> THEN {} ELSE {entered[1]}

(* The newly matched routes whose view is chosen in the navigation turn.   *)
ViewsChosen(entered) == {entered[i] : i \in 1..Len(entered)}

(* Variant: the region does not pick up a value that is already there. *)
SuspenseShowStuck(d) == IF d = "failed" THEN "error" ELSE "fallback"

(* <Suspense fallback=|| "Loading...">: the fallback while the wrapped     *)
(* future is pending, its output once it is ready.                         *)
SuspenseShow(d) ==
    CASE d = "ready" -> "content"
      [] d = "failed" -> "error"
      [] OTHER -> "fallback"

(* view(): a plain component renders at once; a lazy view awaits its       *)
(* module and then runs the inner view function.                           *)
ViewOnEnter(r, m) ==
    IF r \notin LazyRoutes THEN "rendered"
    ELSE CASE m[ModuleOf(r)] = "Loaded" -> "rendered"
           [] m[ModuleOf(r)] = "Failed" -> "failed"
           [] OTHER -> "waiting"

(***************************************************************************)
(* One pass of the router over location p, from state s: match, tear down  *)
(* the routes that left the chain, build the ones that joined it.          *)
(***************************************************************************)
Nav(s, p) ==
    LET new == Resolve(p)
        k == SharedPrefix(s.chain, new)
        exited == {s.chain[i] : i \in (k + 1)..Len(s.chain)}
        enteredSeq == SubSeq(new, k + 1, Len(new))
        entered == InChain(enteredSeq)
        chosen == ViewsChosen(enteredSeq)
        t == Request(s, UNION {EnterModules(r) : r \in chosen})
        view(r) == IF r \in chosen THEN ViewOnEnter(r, s.mod)
                   ELSE "none"
    IN  [t EXCEPT
           !.url = p,
           !.chain = new,
           !.kept = k,
           !.inst = [r \in Routes |->
                        IF r \in entered THEN s.inst[r] + 1 ELSE s.inst[r]],
           !.dataSt = [r \in Routes |->
                          IF r \in entered THEN DataOnEnter(r)
                          ELSE IF r \in exited THEN "none" ELSE s.dataSt[r]],
           !.viewSt = [r \in Routes |->
                          IF r \in entered THEN view(r)
                          ELSE IF r \in exited THEN "none" ELSE s.viewSt[r]],
           !.susp = [r \in Routes |->
                        IF r \in entered
                        THEN (IF r \in HasSuspense /\ view(r) = "rendered"
                              THEN SuspenseShow(DataOnEnter(r)) ELSE "none")
                        ELSE IF r \in exited THEN "none" ELSE s.susp[r]],
           !.text = IF "ViewC" \in entered \cup exited THEN "none" ELSE s.text,
           !.http = s.http \cup
                    {[route |-> r, inst |-> s.inst[r] + 1] :
                        r \in {x \in entered : DataOnEnter(x) = "fetching"}}]

Load(s) ==
    /\ url = s.url /\ chain = s.chain /\ inst = s.inst /\ dataSt = s.dataSt
    /\ viewSt = s.viewSt /\ susp = s.susp /\ text = s.text /\ mod = s.mod
    /\ loads = s.loads /\ requests = s.requests /\ observed = s.observed
    /\ http = s.http /\ fetched = s.fetched /\ failures = s.failures
    /\ panicked = s.panicked /\ navCount = s.navCount /\ kept = s.kept

Store(s) ==
    /\ url' = s.url /\ chain' = s.chain /\ inst' = s.inst /\ dataSt' = s.dataSt
    /\ viewSt' = s.viewSt /\ susp' = s.susp /\ text' = s.text /\ mod' = s.mod
    /\ loads' = s.loads /\ requests' = s.requests /\ observed' = s.observed
    /\ http' = s.http /\ fetched' = s.fetched /\ failures' = s.failures
    /\ panicked' = s.panicked /\ navCount' = s.navCount /\ kept' = s.kept

(* mount_to_body: the router resolves the location the page was opened at. *)
Init == \E p \in Paths : Load(Nav(Unmounted, p))

(* The user follows a link (or the location changes otherwise). *)
Go(p, limit) ==
    /\ ~panicked
    /\ navCount < limit
    /\ Store([Nav(State, p) EXCEPT !.navCount = navCount + 1])

Navigate(p) == Go(p, MaxNav)


(***************************************************************************)
(* Split-module loads finishing.  A load in flight is never cancelled.     *)
(***************************************************************************)
ModuleLoaded(m) ==
    /\ ~panicked
    /\ mod[m] = "Loading"
    /\ mod' = [mod EXCEPT ![m] = "Loaded"]
    /\ UNCHANGED <<url, chain, inst, dataSt, viewSt, susp, text, loads,
                   requests, observed, http, fetched, failures, panicked,
                   navCount, kept>>

ModuleFailed(m) ==
    /\ ~panicked
    /\ mod[m] = "Loading"
    /\ mod' = [mod EXCEPT ![m] = "Failed"]
    /\ UNCHANGED <<url, chain, inst, dataSt, viewSt, susp, text, loads,
                   requests, observed, http, fetched, failures, panicked,
                   navCount, kept>>

(***************************************************************************)
(* A lazy view() future resumes after its module's load has finished.      *)
(***************************************************************************)

(* The inner view function runs: the route's markup is produced, and a     *)
(* <Suspense> in it shows what the state of the route's data calls for.    *)
RenderView(r) ==
    /\ ~panicked
    /\ viewSt[r] = "waiting"
    /\ mod[ModuleOf(r)] = "Loaded"
    /\ viewSt' = [viewSt EXCEPT ![r] = "rendered"]
    /\ susp' = [susp EXCEPT ![r] = IF r \in HasSuspense
                                   THEN SuspenseShow(dataSt[r]) ELSE "none"]
    /\ observed' = [observed EXCEPT ![ModuleOf(r)] = @ \cup {"Loaded"}]
    /\ UNCHANGED <<url, chain, inst, dataSt, text, mod, loads, requests, http,
                   fetched, failures, panicked, navCount, kept>>

(* The module could not be loaded: the route's view is an error state. *)
ViewLoadFailed(r) ==
    /\ ~panicked
    /\ viewSt[r] = "waiting"
    /\ mod[ModuleOf(r)] = "Failed"
    /\ viewSt' = [viewSt EXCEPT ![r] = "failed"]
    /\ observed' = [observed EXCEPT ![ModuleOf(r)] = @ \cup {"Failed"}]
    /\ failures' = failures \cup {ModuleOf(r)}
    /\ UNCHANGED <<url, chain, inst, dataSt, susp, text, mod, loads, requests,
                   http, fetched, panicked, navCount, kept>>

(***************************************************************************)
(* Data tasks.                                                             *)
(***************************************************************************)

(* Variant: a response is handed to whatever task the route has now. *)
LiveAnyInstance(s, q) == q.route \in InChain(s.chain)

(* The data task that sent request q still exists: its route is in the     *)
(* active chain and has not been left and entered again since.             *)
Live(s, q) == q.route \in InChain(s.chain) /\ s.inst[q.route] = q.inst

(* serde_json::from_str(data): succeeds on well-formed JSON. *)
Deserialize(b) == b = "json"

(* The AsyncDerived of route r takes state d; a rendered <Suspense> around *)
(* it follows.                                                             *)
SetData(s, r, d) ==
    [s EXCEPT !.dataSt[r] = d,
              !.susp[r] = IF s.viewSt[r] = "rendered" /\ r \in HasSuspense
                          THEN SuspenseShow(d) ELSE s.susp[r]]

(* An unwrap() on an Err: the panic hook runs and the program aborts. *)
Panic(s, what) ==
    [s EXCEPT !.panicked = TRUE, !.failures = s.failures \cup {what}]

(* deserialize_comments(&data) once its module is loaded. *)
RunDeserialize(s, b) ==
    IF Deserialize(b)
    THEN [SetData(s, "ViewC", "ready") EXCEPT !.text = "none"]
    ELSE Panic(s, "deserialize")

(* The deserializer's module could not be loaded: ViewC's data is an error. *)
ModuleError(s) ==
    [SetData(s, "ViewC", "failed") EXCEPT
       !.text = "none",
       !.failures = s.failures \cup {"deserialize_comments"}]

(* The data task of route r continues with the response text b. *)
AfterFetch(s, r, b) ==
    IF r = "ViewBChild" THEN SetData(s, r, "ready")
    ELSE LET st == s.mod["deserialize_comments"]
             s1 == [s EXCEPT !.fetched = s.fetched + 1]
             s2 == Request(s1, {"deserialize_comments"})
         IN   CASE st = "Loaded" -> RunDeserialize(s2, b)
                   [] st = "Failed" -> ModuleError(s2)
                   [] OTHER -> [SetData(s2, r, "awaitDeser") EXCEPT !.text = b]

(* An HTTP request completes with a response whose text is b. *)
HttpOk(q, b) ==
    /\ ~panicked
    /\ q \in http
    /\ LET s == [State EXCEPT !.http = http \ {q}]
       IN  Store(IF Live(State, q) THEN AfterFetch(s, q.route, b) ELSE s)

(* An HTTP request fails (send() or text() returns Err). *)
HttpFail(q) ==
    /\ ~panicked
    /\ q \in http
    /\ LET s == [State EXCEPT !.http = http \ {q}]
       IN  Store(IF Live(State, q) THEN Panic(s, q.route) ELSE s)

(* ViewC's data task resumes after the deserializer's module has loaded. *)
DeserResume ==
    /\ ~panicked
    /\ dataSt["ViewC"] = "awaitDeser"
    /\ mod["deserialize_comments"] = "Loaded"
    /\ Store(RunDeserialize(
          [State EXCEPT !.observed["deserialize_comments"] = @ \cup {"Loaded"}],
          text))

(* The deserializer's module could not be loaded. *)
DeserLoadFailed ==
    /\ ~panicked
    /\ dataSt["ViewC"] = "awaitDeser"
    /\ mod["deserialize_comments"] = "Failed"
    /\ Store(ModuleError(
          [State EXCEPT !.observed["deserialize_comments"] = @ \cup {"Failed"}]))

Completion ==
    \/ \E m \in Modules : ModuleLoaded(m)
    \/ \E m \in Modules : ModuleFailed(m)
    \/ \E r \in LazyRoutes : RenderView(r)
    \/ \E r \in LazyRoutes : ViewLoadFailed(r)
    \/ \E q \in http, b \in Bodies : HttpOk(q, b)
    \/ \E q \in http : HttpFail(q)
    \/ DeserResume
    \/ DeserLoadFailed

Next ==
    \/ \E p \in Paths : Navigate(p)
    \/ Completion

Spec == Init /\ [][Next]_vars

(***************************************************************************)
(* The same program under the browser's scheduling: a request or a module  *)
(* load in flight finishes (one way or the other), and a task that can     *)
(* resume is resumed.  The user is not obliged to navigate.                *)
(***************************************************************************)
HttpDone == \E q \in http : HttpFail(q) \/ \E b \in Bodies : HttpOk(q, b)

ModuleDone(m) == ModuleLoaded(m) \/ ModuleFailed(m)

Resume ==
    \/ \E r \in LazyRoutes : RenderView(r) \/ ViewLoadFailed(r)
    \/ DeserResume
    \/ DeserLoadFailed

NavigateLive(p) == Go(p, LiveNav)

FairNext ==
    \/ \E p \in Paths : NavigateLive(p)
    \/ Completion

FairSpec ==
    /\ Init /\ [][FairNext]_vars
    /\ WF_vars(HttpDone)
    /\ \A m \in Modules : WF_vars(ModuleDone(m))
    /\ WF_vars(Resume)

(***************************************************************************)
(* Properties.                                                             *)
(***************************************************************************)
BChain == <<"ViewB", "ViewBChild">>

Pending(r) == dataSt[r] \in {"fetching", "awaitDeser"}

(* C1: on "/b" the load requests for view_b and view_b_child are issued    *)
(* together: whenever the chain is [ViewB, ViewBChild] both views have     *)
(* been requested, and neither module has ever been requested or loaded    *)
(* more often than the other, so the child's request never waits for the   *)
(* parent's module.                                                        *)
C1_NoWaterfall ==
    /\ requests["view_b"] = requests["view_b_child"]
    /\ loads["view_b"] = loads["view_b_child"]
    /\ chain = BChain => viewSt["ViewB"] # "none" /\ viewSt["ViewBChild"] # "none"

C1_Witness ==
    /\ chain = BChain
    /\ mod["view_b"] = "Loading" /\ mod["view_b_child"] = "Loading"
    /\ viewSt["ViewB"] = "waiting" /\ viewSt["ViewBChild"] = "waiting"

(* C2: a route with fetched data that is in the chain has had both its     *)
(* data() called and its view module requested, each exactly once per      *)
(* entry, and a navigation that calls data() for it requests its module    *)
(* and sends its fetch in that same step.                                  *)
C2_DataCodeIndependent ==
    /\ [](\A r \in FetchRoutes :
            /\ inst[r] = requests[ModuleOf(r)]
            /\ r \in InChain(chain) => dataSt[r] # "none" /\ viewSt[r] # "none")
    /\ [][\A r \in FetchRoutes :
            inst'[r] # inst[r] =>
              /\ requests'[ModuleOf(r)] = requests[ModuleOf(r)] + 1
              /\ [route |-> r, inst |-> inst'[r]] \in http'
              /\ dataSt'[r] = "fetching"]_vars

C2_Witness ==
    /\ chain = BChain
    /\ dataSt["ViewBChild"] = "ready"
    /\ mod["view_b_child"] = "Loading"
    /\ viewSt["ViewBChild"] = "waiting"

(* C3: however many requests a module receives, at most one underlying     *)
(* load is started for it (exactly one once it has been requested), and    *)
(* its requesters never resume with different outcomes.                    *)
C3_LoadDedup ==
    \A m \in Modules :
        /\ loads[m] <= 1
        /\ requests[m] > 0 => loads[m] = 1
        /\ Cardinality(observed[m]) <= 1
        /\ observed[m] # {} => observed[m] = {mod[m]}

C3_Witness ==
    /\ requests["view_b"] >= 2
    /\ mod["view_b"] = "Loading"
    /\ loads["view_b"] = 1

C5_SharedPrefixReuse ==
    [][navCount' # navCount =>
         \A r \in Routes :
            LET shared == \E i \in 1..Len(chain) :
                             /\ i <= Len(chain')
                             /\ chain[i] = r
                             /\ \A j \in 1..i : chain[j] = chain'[j]
            IN  /\ shared =>
                     /\ inst'[r] = inst[r]
                     /\ dataSt'[r] = dataSt[r]
                     /\ viewSt'[r] = viewSt[r]
                     /\ susp'[r] = susp[r]
                     /\ r \in LazyRoutes =>
                          /\ requests'[ModuleOf(r)] = requests[ModuleOf(r)]
                          /\ loads'[ModuleOf(r)] = loads[ModuleOf(r)]
                /\ (r \in InChain(chain) /\ r \notin InChain(chain')) =>
                     viewSt'[r] = "none" /\ dataSt'[r] = "none"
                /\ (r \notin InChain(chain) /\ r \in InChain(chain')) =>
                     inst'[r] = inst[r] + 1
                /\ (r \notin InChain(chain) /\ r \notin InChain(chain')) =>
                     inst'[r] = inst[r]]_vars

C5_Witness ==
    /\ navCount > 0
    /\ kept = 2
    /\ chain = BChain
    /\ inst["ViewB"] = 1 /\ inst["ViewBChild"] = 1
    /\ dataSt["ViewBChild"] = "ready"
    /\ susp["ViewBChild"] = "content"

(* C6 (as claimed): once the HTTP call for ViewBChild's data has failed,   *)
(* the program goes on, and a rendered ViewBChild shows an error state in  *)
(* its Suspense region.                                                    *)
C6_FailedFetchScoped ==
    "ViewBChild" \in failures =>
        /\ ~panicked
        /\ viewSt["ViewBChild"] = "rendered" => susp["ViewBChild"] = "error"

(* C7 (as claimed): no failure of a fetch, of a module load or of the      *)
(* deserialization stops the program.                                      *)
C7_NoFailureFatal == failures # {} => ~panicked

(* C8: the chain is the one the route table gives for the location: "/"    *)
(* gives [ViewA], rendered with no task of any other route alive; "/b"     *)
(* gives [ViewB, ViewBChild]; "/c" gives [ViewC]; anything else gives no   *)
(* chain.  A navigation to "/" or to an unmatched path requests no module, *)
(* sends no fetch and does not fail.                                       *)
C8_RouteResolution ==
    /\ [](/\ url = <<>> =>
               /\ chain = <<"ViewA">>
               /\ viewSt["ViewA"] = "rendered"
               /\ \A r \in Routes \ {"ViewA"} :
                     dataSt[r] = "none" /\ viewSt[r] = "none"
          /\ url = <<"b">> => chain = BChain
          /\ url = <<"c">> => chain = <<"ViewC">>
          /\ url \notin {<<>>, <<"b">>, <<"c">>} =>
               /\ chain = <<>>
               /\ \A r \in Routes : viewSt[r] = "none"
          /\ navCount = 0 /\ url \notin {<<"b">>, <<"c">>} =>
               /\ http = {}
               /\ \A m \in Modules : requests[m] = 0)
    /\ [][(navCount' # navCount /\ url' \notin {<<"b">>, <<"c">>}) =>
             UNCHANGED <<requests, loads, mod, http, panicked, failures>>]_vars

C8_Witness ==
    /\ navCount > 0
    /\ url = <<"b", "x">>
    /\ chain = <<>>
    /\ ~panicked

(* C9: a rendered Suspense region shows the fallback exactly while its     *)
(* data is pending and the content exactly when the data is ready (on /c:  *)
(* after both the fetch and the deserialization); and a region showing the *)
(* fallback eventually stops showing it, unless the program has panicked.  *)
C9_SuspenseFallback ==
    /\ [](\A r \in HasSuspense :
            viewSt[r] = "rendered" =>
               /\ susp[r] = "fallback" <=> Pending(r)
               /\ susp[r] = "content" <=> dataSt[r] = "ready")
    /\ \A r \in HasSuspense :
          (susp[r] = "fallback") ~> (susp[r] # "fallback" \/ panicked)

C9_Witness ==
    /\ chain = <<"ViewC">>
    /\ susp["ViewC"] = "content"
    /\ fetched = 1
    /\ observed["deserialize_comments"] = {"Loaded"}

(* C10: the deserialize_comments module is requested once per response     *)
(* text delivered to ViewC's data task and never otherwise: not by a       *)
(* navigation, not after a failed fetch, not for a task that was dropped.  *)
C10_DeserAfterFetch ==
    /\ [](/\ requests["deserialize_comments"] = fetched
          /\ mod["deserialize_comments"] # "Unloaded" => fetched > 0
          /\ dataSt["ViewC"] = "fetching" => text = "none")
    /\ [][navCount' # navCount =>
            requests'["deserialize_comments"] = requests["deserialize_comments"]]_vars

C10_Witness ==
    /\ dataSt["ViewC"] = "awaitDeser"
    /\ mod["deserialize_comments"] = "Loading"
    /\ mod["view_c"] = "Loaded"
    /\ susp["ViewC"] = "fallback"

====
